---- MODULE Spec2Model ----
(***************************************************************************)
(* A model of the RIFF/WAVE streaming decoder of azul3d.org/engine         *)
(* audio/wav (decoder struct, advance, bRead, smallRead, nextChunk, the    *)
(* per-format readers, Read, Config, newDecoder).                          *)
(*                                                                         *)
(* The byte source is an explicit sequence of bytes; the chunk parser and  *)
(* the readers work on those bytes.  uint32 fields are kept as two 16-bit  *)
(* halves so that additions wrap at 2^32 exactly as in the code.           *)
(***************************************************************************)
EXTENDS Integers, Sequences, FiniteSets, TLC

(***************************************************************************)
(* Bounds of the model.                                                    *)
(***************************************************************************)
\* Largest number of samples a generated data chunk declares.
MaxSamples == 2
\* Largest buffer length (in samples) a caller passes to Read.
MaxBuf == 3
\* Largest number of Read/Config calls one caller issues.
MaxCalls == 3
\* Largest number of payload bytes of a generated unknown chunk, in 4-byte words.
MaxJunkWords == 2
\* Largest number of EndOfStream-returning Reads still to come before the byte
\* counter of a long-running decoder reaches 2^32.
MaxReadsToWrap == 2
\* Largest number of calls one caller issues when two callers share a decoder.
MaxSharedCalls == 2
\* Calls of the caller that reads until a Read fails.
MaxLoopCalls == 6
\* Calls of the caller of the Seek scenarios.
MaxStreamCalls == 3
\* Largest sample index passed to Seek.
MaxSeek == 2
\* Calls of one caller in the fair-scheduling scenario.
MaxFairCalls == 2
\* Calls of one caller when one caller seeks while the other reads.
MaxRaceCalls == 2
\* Largest number of "fact" chunks left in front of the data chunk of a stream
\* whose chunk headers reach the 2^31-th byte.
MaxDeepFacts == 1

(***************************************************************************)
(* Fixed-width integers.                                                   *)
(***************************************************************************)
Pow16 == 65536

\* uint32 as [hi, lo], value hi * 2^16 + lo.
U32(n) == [hi |-> n \div Pow16, lo |-> n % Pow16]

U32Zero == [hi |-> 0, lo |-> 0]

\* x + n (mod 2^32) for a uint32 x and 0 <= n < 2^16: Go's wrapping +=.
U32Add(x, n) ==
    LET l == x.lo + n
    IN  [hi |-> (x.hi + (l \div Pow16)) % Pow16, lo |-> l % Pow16]

\* x - n (mod 2^32) for a uint32 x and 0 <= n < 2^16.
U32Sub(x, n) ==
    IF x.lo >= n THEN [hi |-> x.hi, lo |-> x.lo - n]
    ELSE [hi |-> (x.hi + Pow16 - 1) % Pow16, lo |-> x.lo + Pow16 - n]

\* unsigned x > y
U32Gt(x, y) == x.hi > y.hi \/ (x.hi = y.hi /\ x.lo > y.lo)

\* The value of a uint32 below 2^31 as a number.
U32Val(x) == x.hi * Pow16 + x.lo

MaxInt32 == 2147483647

\* x + n for an int32 x and 0 <= n < 2^16, wrapping at 2^31 as Go does.
I32Add(x, n) ==
    IF x > MaxInt32 - n
    THEN (x - MaxInt32 - 1) + (n - MaxInt32 - 1)
    ELSE x + n

(***************************************************************************)
(* Little-endian encoding and decoding (encoding/binary, LittleEndian).    *)
(***************************************************************************)
LE16(n) == << n % 256, (n \div 256) % 256 >>

LE32(x) == LE16(x.lo) \o LE16(x.hi)

Uint16LE(b) == b[1] + 256 * b[2]

Uint32LE(b) == [hi |-> b[3] + 256 * b[4], lo |-> b[1] + 256 * b[2]]

(***************************************************************************)
(* Chunk identifiers and format tags.                                      *)
(***************************************************************************)
IdRIFF == << 82, 73, 70, 70 >>
IdWAVE == << 87, 65, 86, 69 >>
IdFmt  == << 102, 109, 116, 32 >>
IdFact == << 102, 97, 99, 116 >>
IdData == << 100, 97, 116, 97 >>

wave_FORMAT_PCM == 1
wave_FORMAT_IEEE_FLOAT == 3
wave_FORMAT_ALAW == 6
wave_FORMAT_MULAW == 7
wave_FORMAT_EXTENSIBLE == 65534

\* binary.Size of the fixed records read by newDecoder.
SizeC16 == 16
SizeC18 == 2
SizeC40 == 24
SizeFact == 4

(***************************************************************************)
(* The decoder struct and the helpers of construction.                     *)
(***************************************************************************)
NoConfig == [set |-> FALSE]

\* new(decoder): every field zero, config nil.
NewDecoderStruct ==
    [format |-> 0, bitsPerSample |-> 0,
     chunkSize |-> U32Zero, currentCount |-> U32Zero,
     dataChunkBegin |-> 0, config |-> NoConfig]

\* The one element of a singleton set.  { e(x) : x \in { v } } evaluates v once
\* before e uses it, which keeps nested calls from being re-evaluated.
The(S) == CHOOSE v \in S : TRUE

\* An advance that leaves the data chunk marker alone when the size is unknown.
advanceKeepingMarker(d, sz) ==
    IF U32Gt(d.chunkSize, U32Zero)
    THEN The({ [d |-> [d EXCEPT !.currentCount = cc],
                err |-> IF U32Gt(cc, d.chunkSize) THEN "EOS" ELSE "nil"]
               : cc \in { U32Add(d.currentCount, sz) } })
    ELSE [d |-> d, err |-> "nil"]

\* decoder.advance(sz): the decoder after the call and the error returned.
advance(d, sz) ==
    IF U32Gt(d.chunkSize, U32Zero)
    THEN The({ [d |-> [d EXCEPT !.currentCount = cc],
                err |-> IF U32Gt(cc, d.chunkSize) THEN "EOS" ELSE "nil"]
               : cc \in { U32Add(d.currentCount, sz) } })
    ELSE [d |-> [d EXCEPT !.dataChunkBegin = I32Add(d.dataChunkBegin, sz)],
          err |-> "nil"]

\* A ReadFull that hands back zero bytes for the ones the source lacks.
ReadFullPadded(r, p, n) ==
    [data |-> [i \in 1..n |-> IF p + i <= Len(r) THEN r[p + i] ELSE 0],
     err |-> "nil", pos |-> p + n]

\* io.ReadFull of n bytes of reader r at offset p: the bytes, the error and the
\* offset afterwards.  A source that ends gives io.EOF when no byte was read and
\* io.ErrUnexpectedEOF when only some were.
ReadFull(r, p, n) ==
    IF p + n <= Len(r)
    THEN [data |-> SubSeq(r, p + 1, p + n), err |-> "nil", pos |-> p + n]
    ELSE [data |-> << >>,
          err |-> IF p >= Len(r) THEN "EOF" ELSE "ErrUnexpectedEOF",
          pos |-> IF p >= Len(r) THEN p ELSE Len(r)]

\* decoder.bRead(data, sz) on a parser state s = [d, pos]: advance, then
\* binary.Read.  data is filled only when the read succeeds.
bRead(r, s, sz) ==
    The({ IF a.err # "nil"
          THEN [s |-> [s EXCEPT !.d = a.d], data |-> << >>, err |-> a.err]
          ELSE The({ [s |-> [d |-> a.d, pos |-> f.pos], data |-> f.data,
                      err |-> f.err]
                     : f \in { ReadFull(r, s.pos, sz) } })
          : a \in { advance(s.d, sz) } })

\* decoder.nextChunk(): identifier and length of the next chunk header.
nextChunk(r, s) ==
    The({ IF a.err # "nil"
          THEN [s |-> a.s, ident |-> << >>, length |-> U32Zero, err |-> a.err]
          ELSE The({ IF b.err # "nil"
                     THEN [s |-> b.s, ident |-> << >>, length |-> U32Zero,
                           err |-> b.err]
                     ELSE [s |-> b.s, ident |-> a.data,
                           length |-> Uint32LE(b.data), err |-> "nil"]
                     : b \in { bRead(r, a.s, 4) } })
          : a \in { bRead(r, s, 4) } })

\* A format switch that also lets the extensible tag through.
SupportedFormatOrExtensible(ft, bits) ==
    \/ ft = wave_FORMAT_PCM /\ bits \in {8, 16, 24, 32}
    \/ ft = wave_FORMAT_IEEE_FLOAT /\ bits \in {32, 64}
    \/ ft = wave_FORMAT_ALAW /\ bits = 8
    \/ ft = wave_FORMAT_MULAW /\ bits = 8
    \/ ft = wave_FORMAT_EXTENSIBLE

\* The (formatTag, bitsPerSample) switch of newDecoder.
SupportedFormat(ft, bits) ==
    \/ ft = wave_FORMAT_PCM /\ bits \in {8, 16, 24, 32}
    \/ ft = wave_FORMAT_IEEE_FLOAT /\ bits \in {32, 64}
    \/ ft = wave_FORMAT_ALAW /\ bits = 8
    \/ ft = wave_FORMAT_MULAW /\ bits = 8

\* Results of one iteration of the chunk loop.
\* rd is the error of the last read of the source in the iteration.
Parsing(s) == [s |-> s, st |-> "parsing", err |-> "nil", rd |-> "nil"]
Failed(s, e, rd) == [s |-> s, st |-> "failed", err |-> e, rd |-> rd]
Complete(s) == [s |-> s, st |-> "complete", err |-> "nil", rd |-> "nil"]

\* A case "RIFF" that reads the form type and does not compare it.
caseRIFFAnyForm(r, s) ==
    The({ Parsing(f.s) : f \in { bRead(r, s, 4) } })

\* case "RIFF": the next 4 bytes must be "WAVE"; the read's error is not looked at.
caseRIFF(r, s) ==
    The({ IF (IF f.err = "nil" THEN f.data ELSE << 0, 0, 0, 0 >>) # IdWAVE
          THEN Failed(f.s, "ErrInvalidData", f.err)
          ELSE Parsing(f.s)
          : f \in { bRead(r, s, 4) } })

\* The fields of fmtChunk16 that newDecoder uses, from the 16 bytes read.
fmtChunk16(data) ==
    [FormatTag |-> Uint16LE(SubSeq(data, 1, 2)),
     Channels |-> Uint16LE(SubSeq(data, 3, 4)),
     SamplesPerSec |-> Uint32LE(SubSeq(data, 5, 8)),
     BitsPerSample |-> Uint16LE(SubSeq(data, 15, 16))]

\* The switch on length after the 16-byte record: the 18/40 byte extensions.
fmtExtension(r, s, length) ==
    IF length = U32(18) THEN bRead(r, s, SizeC18)
    ELSE IF length = U32(40) THEN bRead(r, s, SizeC40)
    ELSE [s |-> s, data |-> << >>, err |-> "nil"]

\* case "fmt ": the 16-byte record, the extension, the format check, config.
caseFmt(r, s, length) ==
    The({ IF f.err # "nil" THEN Failed(f.s, f.err, f.err)
          ELSE The({
               The({ IF ext.err # "nil" THEN Failed(ext.s, ext.err, ext.err)
                     ELSE IF ~SupportedFormat(c16.FormatTag, c16.BitsPerSample)
                     THEN Failed(ext.s, "ErrUnsupported", "nil")
                     ELSE Parsing([ext.s EXCEPT
                              !.d.format = c16.FormatTag,
                              !.d.config = [set |-> TRUE,
                                            Channels |-> c16.Channels,
                                            SampleRate |-> c16.SamplesPerSec]])
                     : ext \in { fmtExtension(r,
                                    [f.s EXCEPT !.d.bitsPerSample = c16.BitsPerSample],
                                    length) } })
               : c16 \in { fmtChunk16(f.data) } })
          : f \in { bRead(r, s, SizeC16) } })

\* case "fact": the fact record is read and dropped.
caseFact(r, s) ==
    The({ IF f.err # "nil" THEN Failed(f.s, f.err, f.err) ELSE Parsing(f.s)
          : f \in { bRead(r, s, SizeFact) } })

\* case "data": the chunk size is recorded and the loop ends.
caseData(s, length) == Complete([s EXCEPT !.d.chunkSize = length])

\* One iteration of the for !complete loop of newDecoder.
chunkLoop(r, s) ==
    The({ IF h.err # "nil" THEN Failed(h.s, h.err, h.err)
          ELSE IF h.ident = IdRIFF THEN caseRIFF(r, h.s)
          ELSE IF h.ident = IdFmt THEN caseFmt(r, h.s, h.length)
          ELSE IF h.ident = IdFact THEN caseFact(r, h.s)
          ELSE IF h.ident = IdData THEN caseData(h.s, h.length)
          ELSE Parsing(h.s)
          : h \in { nextChunk(r, s) } })

\* newDecoder(r): the loop run to its end.  Every iteration that goes on has
\* consumed the 8 bytes of a chunk header, so the recursion ends.
RECURSIVE chunkLoopFrom(_, _)
chunkLoopFrom(r, s) ==
    The({ IF n.st = "parsing" THEN chunkLoopFrom(r, n.s) ELSE n
          : n \in { chunkLoop(r, s) } })

newDecoder(r) == chunkLoopFrom(r, [d |-> NewDecoderStruct, pos |-> 0])

(***************************************************************************)
(* Containers the decoder is run on.                                       *)
(***************************************************************************)
Min(a, b) == IF a < b THEN a ELSE b

RECURSIVE Repeat(_, _)
Repeat(w, n) == IF n = 0 THEN << >> ELSE w \o Repeat(w, n - 1)

\* The i-th (from 0) payload byte of a generated data chunk.
PayloadByte(i) == (131 + 83 * i) % 256

Payload(n) == [i \in 1..n |-> PayloadByte(i - 1)]

\* "RIFF" <size> "WAVE" in front of the chunks.
RiffHeader(id, lit, rest) == id \o LE32(U32(4 + Len(rest))) \o lit

\* The fmt chunk: the 16-byte record and, for the lengths 18 and 40, the
\* extension (cbSize; valid bits, channel mask, sub-format).
FmtChunk(tag, channels, rate, bits, len) ==
    IdFmt \o LE32(U32(len))
    \o LE16(tag) \o LE16(channels) \o LE32(rate)
    \o LE32(U32(0)) \o LE16(0) \o LE16(bits)
    \o (IF len = 18 THEN LE16(0)
        ELSE IF len = 40 THEN LE16(22) \o LE16(bits) \o Repeat(<< 0 >>, 20)
        ELSE << >>)

FactChunk == IdFact \o LE32(U32(SizeFact)) \o LE32(U32(1))

\* The data chunk header with a declared length, and the bytes after it.
DataChunk(declared, bytes) == IdData \o LE32(U32(declared)) \o Payload(bytes)

\* A chunk the decoder has no case for, with a payload of the given words.
IdLIST == << 76, 73, 83, 84 >>
IdRIFX == << 82, 73, 70, 88 >>
IdJUNK == << 74, 85, 78, 75 >>

JunkWords == { << 97, 98, 99, 100 >>, IdData, LE32(U32(4)) }

RECURSIVE JunkPayloads(_)
JunkPayloads(n) ==
    IF n = 0 THEN { << >> }
    ELSE { p \o w : p \in JunkPayloads(n - 1), w \in JunkWords }

UnknownChunk(payload) == IdLIST \o LE32(U32(Len(payload))) \o payload

UnknownChunks ==
    { UnknownChunk(p) : p \in UNION { JunkPayloads(n) : n \in 0..MaxJunkWords } }

\* Format tags and bit depths a fmt chunk is generated with.
TagInputs == { 0, wave_FORMAT_PCM, 2, wave_FORMAT_IEEE_FLOAT, wave_FORMAT_ALAW,
               wave_FORMAT_MULAW, wave_FORMAT_EXTENSIBLE }
BitsInputs == { 0, 8, 12, 16, 24, 32, 64 }
FmtLengths == { 16, 18, 40 }

NoTag == 0 - 1

\* An input of construction: the bytes, what they were built from, and the same
\* container without its unknown chunks.
Input(bytes, shape, tag, bits, plain) ==
    [bytes |-> bytes, shape |-> shape, tag |-> tag, bits |-> bits, plain |-> plain]

\* RIFF/WAVE, one fmt chunk, one data chunk: every tag and bit depth.
FormatInputs ==
    { LET rest == FmtChunk(tag, 2, U32(44100), bits, len) \o DataChunk(4, 4)
          b == RiffHeader(IdRIFF, IdWAVE, rest) \o rest
      IN  Input(b, "riff-fmt-data", tag, bits, b)
      : tag \in TagInputs, bits \in BitsInputs, len \in FmtLengths }

\* Containers that vary the chunks around a 16-bit PCM fmt chunk.
StructureInputs ==
    { LET fmt == IF hasFmt THEN FmtChunk(wave_FORMAT_PCM, 2, U32(44100), 16, 16)
                 ELSE << >>
          fct == IF hasFact THEN FactChunk ELSE << >>
          rest == junk \o fmt \o fct \o DataChunk(4, 4)
          prest == fmt \o fct \o DataChunk(4, 4)
          head(x) == IF first = "none" THEN << >>
                     ELSE IF first = "RIFX" THEN RiffHeader(IdRIFX, IdWAVE, x)
                     ELSE IF first = "RIFF-AVI" THEN RiffHeader(IdRIFF, IdJUNK, x)
                     ELSE RiffHeader(IdRIFF, IdWAVE, x)
      IN  Input(head(rest) \o rest, "structure", NoTag, 0, head(prest) \o prest)
      : first \in { "none", "RIFX", "RIFF-AVI", "RIFF" },
        junk \in UnknownChunks \cup { << >> },
        hasFmt \in BOOLEAN, hasFact \in BOOLEAN }

\* Sources that end early: every prefix of a complete container.
TruncationBases ==
    { LET rest == FmtChunk(wave_FORMAT_PCM, 2, U32(44100), 16, len)
                  \o FactChunk \o DataChunk(4, 4)
      IN  RiffHeader(IdRIFF, IdWAVE, rest) \o rest
      : len \in FmtLengths }

TruncatedInputs ==
    UNION { { Input(SubSeq(b, 1, n), "truncated", NoTag, 0, SubSeq(b, 1, n))
              : n \in 0..Len(b) }
            : b \in TruncationBases }

ParseInputs == FormatInputs \cup StructureInputs \cup TruncatedInputs

(***************************************************************************)
(* State.                                                                  *)
(***************************************************************************)
VARIABLES
    src,        \* the bytes of the underlying reader d.rd
    meta,       \* how src was built (never read by the decoder)
    pos,        \* offset of the reader: bytes consumed so far
    d,          \* the decoder struct
    pstate,     \* newDecoder: "parsing", "complete" (d returned) or "failed"
    perr,       \* the error newDecoder returned
    lastChunk,  \* the chunk header the last loop iteration read
    access,     \* d.access, the sync.RWMutex: [w: holder of Lock, r: holders of RLock]
    pc,         \* where each caller is inside Read or Config
    buf,        \* the slice each caller passed to Read
    nread,      \* each Read's loop variable read
    ret,        \* what each caller's last call returned
    calls,      \* number of calls each caller has issued
    delivered,  \* samples returned by all Reads so far
    taken,      \* the samples pulled from the source, in order: offset, caller, call
    stage,      \* the scenario and its phase
    enc,        \* the encoder struct and the bytes of its sink
    written,    \* the samples handed to the encoder's Write so far
    eos         \* a Read on the decoder has returned EOS

vars == << src, meta, pos, d, pstate, perr, lastChunk, access, pc, buf, nread,
           ret, calls, delivered, taken, stage, enc, written, eos >>

Callers == { 1, 2 }

NoChunk == [kind |-> "none"]
NoEncoder == [open |-> FALSE]
NoRet == [op |-> "none"]
NoBuf == [variant |-> "none", len |-> 0, cells |-> << >>]
FreeLock == [w |-> 0, r |-> {}]

\* The callers before any call.
CallersIdle ==
    /\ access = FreeLock
    /\ pc = [t \in Callers |-> "idle"]
    /\ buf = [t \in Callers |-> NoBuf]
    /\ nread = [t \in Callers |-> 0]
    /\ ret = [t \in Callers |-> NoRet]
    /\ calls = [t \in Callers |-> 0]
    /\ delivered = 0
    /\ taken = << >>
    /\ eos = FALSE

callerVars == << access, pc, buf, nread, ret, calls, delivered, taken, eos >>

(***************************************************************************)
(* Construction, one iteration of the chunk loop per step.                 *)
(***************************************************************************)
InitParse ==
    /\ meta \in ParseInputs
    /\ src = meta.bytes
    /\ pos = 0
    /\ d = NewDecoderStruct
    /\ pstate = "parsing"
    /\ perr = "nil"
    /\ lastChunk = NoChunk
    /\ stage = "construct"
    /\ enc = NoEncoder
    /\ written = << >>
    /\ CallersIdle

\* What kind of chunk header stands at the reader's offset.
HeaderKind ==
    The({ IF h.err # "nil" THEN "short"
          ELSE IF h.ident = IdRIFF THEN "RIFF"
          ELSE IF h.ident = IdFmt THEN "fmt"
          ELSE IF h.ident = IdFact THEN "fact"
          ELSE IF h.ident = IdData THEN "data"
          ELSE "other"
          : h \in { nextChunk(src, [d |-> d, pos |-> pos]) } })

\* One iteration of the loop, on a chunk header of the given kind.
LoopIteration(kind) ==
    \E h \in { nextChunk(src, [d |-> d, pos |-> pos]) } :
    \E n \in { chunkLoop(src, [d |-> d, pos |-> pos]) } :
        /\ d' = n.s.d
        /\ pos' = n.s.pos
        /\ pstate' = n.st
        /\ perr' = n.err
        /\ lastChunk' = [kind |-> kind, at |-> pos, length |-> h.length,
                         rd |-> n.rd]
        /\ UNCHANGED << src, meta, stage, enc, written, callerVars >>

\* The source fails or ends inside the 8 bytes of a chunk header.
HeaderFails ==
    /\ pstate = "parsing"
    /\ HeaderKind = "short"
    /\ LoopIteration("short")

ChunkRIFF ==
    /\ pstate = "parsing"
    /\ HeaderKind = "RIFF"
    /\ LoopIteration("RIFF")

ChunkFmt ==
    /\ pstate = "parsing"
    /\ HeaderKind = "fmt"
    /\ LoopIteration("fmt")

ChunkFact ==
    /\ pstate = "parsing"
    /\ HeaderKind = "fact"
    /\ LoopIteration("fact")

ChunkData ==
    /\ pstate = "parsing"
    /\ HeaderKind = "data"
    /\ LoopIteration("data")

\* A chunk with any other identifier: no case of the switch, the loop goes on.
ChunkOther ==
    /\ pstate = "parsing"
    /\ HeaderKind = "other"
    /\ LoopIteration("other")

Construct ==
    \/ HeaderFails
    \/ ChunkRIFF
    \/ ChunkFmt
    \/ ChunkFact
    \/ ChunkData
    \/ ChunkOther

(***************************************************************************)
(* Construction alone, run to its end, over every generated container and   *)
(* over streams with so many chunks before "data" that the data header ends *)
(* near the 2^31-th byte.  Of such a stream src holds the bytes from the    *)
(* reader's offset on, meta.skipped is the number of bytes before them, and *)
(* pos counts from there.                                                   *)
(***************************************************************************)
\* The head of a long stream: RIFF/WAVE and a 16-bit PCM "fmt " chunk.
DeepHead ==
    RiffHeader(IdRIFF, IdWAVE, << >>) \o FmtChunk(wave_FORMAT_PCM, 2, U32(44100), 16, 16)

\* The decoder after the head and 178956967 - i "fact" chunks of 12 bytes:
\* MaxInt32 - 7 - 12 * i bytes read, each counted by advance.
DeepSkipped(i) == MaxInt32 - 7 - 12 * i

DeepDecoder(i) ==
    The({ [s2.s.d EXCEPT !.dataChunkBegin = DeepSkipped(i)]
          : s2 \in { chunkLoop(DeepHead, The({ s1.s : s1 \in
                        { chunkLoop(DeepHead, [d |-> NewDecoderStruct, pos |-> 0]) } })) } })

DeepInputs ==
    { [bytes |-> Repeat(FactChunk, j) \o DataChunk(4, 4), shape |-> "deep",
       skipped |-> DeepSkipped(i), facts |-> i]
      : i \in 0..MaxDeepFacts, j \in 0..MaxDeepFacts }

InitBuild ==
    /\ \/ /\ \E m \in ParseInputs : meta = m @@ [skipped |-> 0]
          /\ d = NewDecoderStruct
       \/ /\ meta \in DeepInputs
          /\ d = DeepDecoder(meta.facts)
    /\ src = meta.bytes
    /\ pos = 0
    /\ pstate = "parsing"
    /\ perr = "nil"
    /\ lastChunk = NoChunk
    /\ stage = "build"
    /\ enc = NoEncoder
    /\ written = << >>
    /\ CallersIdle

\* newDecoder is one sequential loop: its next iteration always runs.
SpecBuild == InitBuild /\ [][Construct]_vars /\ WF_vars(Construct)

(***************************************************************************)
(* The per-format readers.                                                 *)
(***************************************************************************)
\* The switch of Read on d.format and d.bitsPerSample: the reader it calls.
Dispatch(format, bits) ==
    IF format = wave_FORMAT_PCM
    THEN (IF bits = 8 THEN "readUint8"
          ELSE IF bits = 16 THEN "readInt16"
          ELSE IF bits = 24 THEN "readInt24"
          ELSE IF bits = 32 THEN "readInt32"
          ELSE "panic: invalid bits per sample")
    ELSE IF format = wave_FORMAT_IEEE_FLOAT
    THEN (IF bits = 32 THEN "readFloat32"
          ELSE IF bits = 64 THEN "readFloat64"
          ELSE "panic: invalid bits per sample")
    ELSE IF format = wave_FORMAT_MULAW THEN "readMuLaw"
    ELSE IF format = wave_FORMAT_ALAW THEN "readALaw"
    ELSE "panic: invalid format"

IsPanic(reader) ==
    reader \in { "panic: invalid bits per sample", "panic: invalid format" }

\* The byte width each reader passes to advance and smallRead.
SampleBytes(reader) ==
    CASE reader \in { "readUint8", "readMuLaw", "readALaw" } -> 1
      [] reader = "readInt16" -> 2
      [] reader = "readInt24" -> 3
      [] reader \in { "readInt32", "readFloat32" } -> 4
      [] reader = "readFloat64" -> 8

\* The slice type each reader stores into without conversion (bbOk).
NativeVariant(reader) ==
    CASE reader = "readUint8" -> "Uint8"
      [] reader = "readInt16" -> "Int16"
      [] reader \in { "readInt24", "readInt32" } -> "Int32"
      [] reader = "readFloat32" -> "Float32"
      [] reader = "readFloat64" -> "none"
      [] reader = "readMuLaw" -> "MuLaw"
      [] reader = "readALaw" -> "ALaw"

\* The conversion to float64 a reader applies before b.Set when the slice is
\* of another type.
Conversion(reader) ==
    CASE reader = "readUint8" -> "Uint8ToFloat64"
      [] reader = "readInt16" -> "Int16ToFloat64"
      [] reader \in { "readInt24", "readInt32" } -> "Int32ToFloat64"
      [] reader = "readFloat32" -> "float64"
      [] reader = "readFloat64" -> "Float64frombits"
      [] reader = "readMuLaw" -> "Int16ToFloat64(MuLawToInt16)"
      [] reader = "readALaw" -> "Int16ToFloat64(ALawToInt16)"

\* int16(binary.LittleEndian.Uint16(buf))
Int16LE(b) ==
    IF Uint16LE(b) >= 32768 THEN Uint16LE(b) - Pow16 ELSE Uint16LE(b)

\* A readInt24 without the sign extension.
Int24LEUnsigned(b) == b[1] + 256 * b[2] + Pow16 * b[3]

\* readInt24: ss = b0 | b1<<8 | b2<<16; when ss & 0x800000 is set the upper
\* 8 bits of the int32 are set as well (ss |= ^0xffffff), which takes 2^24 off.
Int24LE(b) ==
    The({ IF (ss \div 8388608) % 2 = 1 THEN ss - 256 * Pow16 ELSE ss
          : ss \in { b[1] + 256 * b[2] + Pow16 * b[3] } })

\* int32(binary.LittleEndian.Uint32(buf))
Int32LE(b) ==
    IF b[4] >= 128
    THEN (b[3] + 256 * b[4] - Pow16) * Pow16 + b[1] + 256 * b[2]
    ELSE (b[3] + 256 * b[4]) * Pow16 + b[1] + 256 * b[2]

\* The sample a reader decodes from the bytes of one smallRead.  Floats are
\* kept as the bit pattern handed to math.Float32frombits / Float64frombits.
DecodeSample(reader, b) ==
    CASE reader \in { "readUint8", "readMuLaw", "readALaw" } -> b[1]
      [] reader = "readInt16" -> Int16LE(b)
      [] reader = "readInt24" -> Int24LE(b)
      [] reader = "readInt32" -> Int32LE(b)
      [] reader \in { "readFloat32", "readFloat64" } -> b

\* What a reader stores in slot read of the slice: the native sample when the
\* slice has the reader's own type, else b.Set of the converted sample.
StoredCell(reader, variant, b, off) ==
    IF variant = NativeVariant(reader)
    THEN [off |-> off, how |-> "native", v |-> DecodeSample(reader, b)]
    ELSE [off |-> off, how |-> Conversion(reader), v |-> DecodeSample(reader, b)]

Unwritten == [how |-> "unwritten"]

Variants == { "Uint8", "Int16", "Int32", "Float32", "Float64", "MuLaw", "ALaw" }

(***************************************************************************)
(* d.access, a sync.RWMutex.                                               *)
(***************************************************************************)
\* A Lock() that does not wait for another writer.
CanLockDespiteWriter(ac) == ac.r = {}

\* Lock() returns: nobody holds the lock for writing or for reading.
CanLock(ac) == ac.w = 0 /\ ac.r = {}

\* An RLock() that does not wait for the writer.
CanRLockDespiteWriter(ac, pcs) == \A u \in Callers : pcs[u] # "lock"

\* RLock() returns: no writer holds the lock and none is waiting in Lock().
CanRLock(ac, pcs) == ac.w = 0 /\ \A u \in Callers : pcs[u] # "lock"

(***************************************************************************)
(* Read and Config, as called by caller t on a decoder newDecoder returned. *)
(***************************************************************************)
\* The number of calls a caller may issue in the scenario at hand.
CallCap ==
    IF stage = "shared" THEN MaxSharedCalls
    ELSE IF stage = "fair" THEN MaxFairCalls
    ELSE IF stage = "race" THEN MaxRaceCalls
    ELSE IF stage = "stream" THEN MaxStreamCalls
    ELSE IF stage = "loop" THEN MaxLoopCalls
    ELSE MaxCalls

ReadRet(n, err, len) == [op |-> "Read", n |-> n, err |-> err, len |-> len]

\* A Read of an empty slice that takes the lock before it looks at the length.
ReadEmptyLocked(t) ==
    /\ pstate = "complete"
    /\ pc[t] = "idle"
    /\ calls[t] < CallCap
    /\ CanLock(access)
    /\ calls' = [calls EXCEPT ![t] = @ + 1]
    /\ ret' = [ret EXCEPT ![t] = ReadRet(0, "nil", 0) @@ [before |-> delivered, afterEOS |-> eos]]
    /\ UNCHANGED << src, meta, pos, d, pstate, perr, lastChunk, access, pc, buf,
                    nread, delivered, taken, stage, enc, written, eos >>

\* Read(b) with b.Len() == 0: returns (0, nil) before the lock is touched.
ReadEmpty(t) ==
    /\ pstate = "complete"
    /\ pc[t] = "idle"
    /\ calls[t] < CallCap
    /\ calls' = [calls EXCEPT ![t] = @ + 1]
    /\ ret' = [ret EXCEPT ![t] = ReadRet(0, "nil", 0) @@ [before |-> delivered, afterEOS |-> eos]]
    /\ UNCHANGED << src, meta, pos, d, pstate, perr, lastChunk, access, pc, buf,
                    nread, delivered, taken, stage, enc, written, eos >>

\* Read(b) with a slice of n >= 1 samples: the caller reaches d.access.Lock().
ReadCall(t, n, variant) ==
    /\ pstate = "complete"
    /\ pc[t] = "idle"
    /\ calls[t] < CallCap
    /\ n >= 1
    /\ calls' = [calls EXCEPT ![t] = @ + 1]
    /\ buf' = [buf EXCEPT ![t] = [variant |-> variant, len |-> n,
                                  cells |-> [i \in 1..n |-> Unwritten]]]
    /\ nread' = [nread EXCEPT ![t] = 0]
    /\ pc' = [pc EXCEPT ![t] = "lock"]
    /\ UNCHANGED << src, meta, pos, d, pstate, perr, lastChunk, access, ret,
                    delivered, taken, stage, enc, written, eos >>

\* d.access.Lock() returns and the switch picks the reader (or panics; the
\* deferred Unlock still runs).
ReadLock(t) ==
    /\ pc[t] = "lock"
    /\ CanLock(access)
    /\ access' = [access EXCEPT !.w = t]
    /\ IF IsPanic(Dispatch(d.format, d.bitsPerSample))
       THEN /\ pc' = [pc EXCEPT ![t] = "unlock"]
            /\ ret' = [ret EXCEPT ![t] =
                          ReadRet(0, Dispatch(d.format, d.bitsPerSample), buf[t].len)]
       ELSE /\ pc' = [pc EXCEPT ![t] = "loop"]
            /\ UNCHANGED ret
    /\ UNCHANGED << src, meta, pos, d, pstate, perr, lastChunk, buf, nread, calls,
                    delivered, taken, stage, enc, written, eos >>

\* One iteration of a reader's loop: advance, smallRead, decode, store.
ReadSample(t) ==
    /\ pc[t] = "loop"
    /\ nread[t] < buf[t].len
    /\ \E reader \in { Dispatch(d.format, d.bitsPerSample) } :
       \E a \in { advance(d, SampleBytes(reader)) } :
          /\ d' = a.d
          /\ IF a.err # "nil"
             THEN /\ ret' = [ret EXCEPT ![t] = ReadRet(nread[t], a.err, buf[t].len)]
                  /\ pc' = [pc EXCEPT ![t] = "unlock"]
                  /\ UNCHANGED << pos, buf, nread, taken >>
             ELSE \E f \in { ReadFull(src, pos, SampleBytes(reader)) } :
                  /\ pos' = f.pos
                  /\ IF f.err # "nil"
                     THEN /\ ret' = [ret EXCEPT ![t] =
                                        ReadRet(nread[t], f.err, buf[t].len)]
                          /\ pc' = [pc EXCEPT ![t] = "unlock"]
                          /\ UNCHANGED << buf, nread, taken >>
                     ELSE /\ buf' = [buf EXCEPT ![t].cells[nread[t] + 1] =
                                        StoredCell(reader, buf[t].variant, f.data, pos)]
                          /\ nread' = [nread EXCEPT ![t] = @ + 1]
                          /\ taken' = Append(taken,
                                [off |-> pos, by |-> t, call |-> calls[t],
                                 cell |-> StoredCell(reader, buf[t].variant,
                                                     f.data, pos)])
                          /\ UNCHANGED << ret, pc >>
    /\ UNCHANGED << src, meta, pstate, perr, lastChunk, access, calls, delivered,
                    stage, enc, written, eos >>

\* The loop ends with the slice full: the reader returns (len, nil).
ReadFilled(t) ==
    /\ pc[t] = "loop"
    /\ nread[t] = buf[t].len
    /\ ret' = [ret EXCEPT ![t] = ReadRet(nread[t], "nil", buf[t].len)]
    /\ pc' = [pc EXCEPT ![t] = "unlock"]
    /\ UNCHANGED << src, meta, pos, d, pstate, perr, lastChunk, access, buf, nread,
                    calls, delivered, taken, stage, enc, written, eos >>

\* A Read whose Unlock() is a statement before "return n, nil" instead of a
\* deferred call: the error returns and the panic leave the lock held.
ReadUnlockOnSuccess(t) ==
    /\ pc[t] = "unlock"
    /\ access' = IF ret[t].err = "nil" THEN [access EXCEPT !.w = 0] ELSE access
    /\ pc' = [pc EXCEPT ![t] = "idle"]
    /\ ret' = [ret EXCEPT ![t] = @ @@ [before |-> delivered, afterEOS |-> eos]]
    /\ delivered' = delivered + ret[t].n
    /\ eos' = (eos \/ ret[t].err = "EOS")
    /\ UNCHANGED << src, meta, pos, d, pstate, perr, lastChunk, buf, nread, calls,
                    taken, stage, enc, written >>

\* The deferred d.access.Unlock(); Read returns to its caller.
ReadUnlock(t) ==
    /\ pc[t] = "unlock"
    /\ access' = [access EXCEPT !.w = 0]
    /\ pc' = [pc EXCEPT ![t] = "idle"]
    /\ ret' = [ret EXCEPT ![t] = @ @@ [before |-> delivered, afterEOS |-> eos]]
    /\ delivered' = delivered + ret[t].n
    /\ eos' = (eos \/ ret[t].err = "EOS")
    /\ UNCHANGED << src, meta, pos, d, pstate, perr, lastChunk, buf, nread, calls,
                    taken, stage, enc, written >>

\* Config(): the caller reaches d.access.RLock().
ConfigCall(t) ==
    /\ pstate = "complete"
    /\ pc[t] = "idle"
    /\ calls[t] < CallCap
    /\ calls' = [calls EXCEPT ![t] = @ + 1]
    /\ pc' = [pc EXCEPT ![t] = "rlock"]
    /\ UNCHANGED << src, meta, pos, d, pstate, perr, lastChunk, access, buf, nread,
                    ret, delivered, taken, stage, enc, written, eos >>

\* d.access.RLock() returns.
ConfigRLock(t) ==
    /\ pc[t] = "rlock"
    /\ CanRLock(access, pc)
    /\ access' = [access EXCEPT !.r = @ \cup { t }]
    /\ pc' = [pc EXCEPT ![t] = "rheld"]
    /\ UNCHANGED << src, meta, pos, d, pstate, perr, lastChunk, buf, nread, ret,
                    calls, delivered, taken, stage, enc, written, eos >>

\* return *d.config, then the deferred RUnlock (which runs on a panic too).
ConfigReturn(t) ==
    /\ pc[t] = "rheld"
    /\ ret' = [ret EXCEPT ![t] =
                  IF d.config.set
                  THEN [op |-> "Config", err |-> "nil", config |-> d.config]
                  ELSE [op |-> "Config", err |-> "panic: nil pointer dereference"]]
    /\ access' = [access EXCEPT !.r = @ \ { t }]
    /\ pc' = [pc EXCEPT ![t] = "idle"]
    /\ UNCHANGED << src, meta, pos, d, pstate, perr, lastChunk, buf, nread, calls,
                    delivered, taken, stage, enc, written, eos >>

\* A Seek that also sets the byte counter to the sample it seeks to.
SeekMovingCount(t, sample) ==
    /\ pstate = "complete"
    /\ pc[t] = "idle"
    /\ calls[t] < CallCap
    /\ calls' = [calls EXCEPT ![t] = @ + 1]
    /\ pos' = IF meta.seekable
              THEN d.dataChunkBegin + sample * (d.bitsPerSample \div 8)
              ELSE pos
    /\ d' = [d EXCEPT !.currentCount = U32(sample * (d.bitsPerSample \div 8))]
    /\ ret' = [ret EXCEPT ![t] = [op |-> "Seek", err |-> "nil", sample |-> sample]]
    /\ UNCHANGED << src, meta, pstate, perr, lastChunk, access, pc, buf, nread,
                    delivered, taken, stage, enc, written, eos >>

\* Seek(sample): no lock is taken.  On an io.ReadSeeker the source is moved to
\* int64(d.dataChunkBegin) + sample * (bitsPerSample / 8), counted from its
\* start; a negative offset is refused by the source.  Any other source is left
\* alone and nil is returned.
Seek(t, sample) ==
    /\ pstate = "complete"
    /\ pc[t] = "idle"
    /\ calls[t] < CallCap
    /\ calls' = [calls EXCEPT ![t] = @ + 1]
    /\ \E target \in { d.dataChunkBegin + sample * (d.bitsPerSample \div 8) } :
          IF meta.seekable /\ target >= 0
          THEN /\ pos' = target
               /\ ret' = [ret EXCEPT ![t] =
                             [op |-> "Seek", err |-> "nil", sample |-> sample]]
          ELSE /\ pos' = pos
               /\ ret' = [ret EXCEPT ![t] =
                             [op |-> "Seek",
                              err |-> IF meta.seekable THEN "seek: negative position"
                                      ELSE "nil",
                              sample |-> sample]]
    /\ UNCHANGED << src, meta, d, pstate, perr, lastChunk, access, pc, buf, nread,
                    delivered, taken, stage, enc, written, eos >>

(***************************************************************************)
(* Construction followed by Config and Read calls of one caller.           *)
(***************************************************************************)
NextParse ==
    \/ Construct
    \/ ConfigCall(1)
    \/ ConfigRLock(1)
    \/ ConfigReturn(1)
    \/ ReadCall(1, 1, "Float64")
    \/ ReadLock(1)
    \/ ReadSample(1)
    \/ ReadFilled(1)
    \/ ReadUnlock(1)


SpecParse == InitParse /\ [][NextParse]_vars

(***************************************************************************)
(* One caller reading a decoder over a complete container.                 *)
(***************************************************************************)
\* uint32 helpers for the states of a decoder that has been read for long.
MaxU32 == [hi |-> Pow16 - 1, lo |-> Pow16 - 1]

U32Mod(x, w) == ((x.hi % w) * (Pow16 % w) + (x.lo % w)) % w

\* The value of currentCount g EndOfStream-returning Reads before it passes
\* 2^32: the largest multiple of the sample width below 2^32, less (g-1) widths.
\* A decoder over a chunk of k samples of w bytes has currentCount = k*w after
\* the k-th sample, and every further Read adds w to it and returns EOS, so
\* every multiple of w between the chunk size and 2^32 is reached.
CountBeforeWrap(w, g) == U32Sub(U32Sub(MaxU32, U32Mod(MaxU32, w)), (g - 1) * w)

\* RIFF/WAVE, a 16-byte fmt chunk and a data chunk declaring k samples, with
\* trail further bytes in the source after the data chunk.
ReadInput(tag, bits, k, trail, gap) ==
    The({ [bytes |-> RiffHeader(IdRIFF, IdWAVE, rest) \o rest,
           plain |-> RiffHeader(IdRIFF, IdWAVE, rest) \o rest,
           shape |-> "read", tag |-> tag, bits |-> bits,
           k |-> k, w |-> bits \div 8, trail |-> trail, gap |-> gap,
           start |-> 12 + Len(rest) - (k * (bits \div 8) + trail)]
          : rest \in { FmtChunk(tag, 2, U32(44100), bits, 16)
                       \o DataChunk(k * (bits \div 8), k * (bits \div 8) + trail) } })

TrailBytes == { 0, 8 }

ReadInputs ==
    { ReadInput(p[1], p[2], k, trail, gap)
      : p \in { << wave_FORMAT_PCM, 8 >>, << wave_FORMAT_PCM, 16 >>,
                << wave_FORMAT_PCM, 24 >>, << wave_FORMAT_PCM, 32 >>,
                << wave_FORMAT_IEEE_FLOAT, 32 >>, << wave_FORMAT_IEEE_FLOAT, 64 >>,
                << wave_FORMAT_ALAW, 8 >>, << wave_FORMAT_MULAW, 8 >> },
        k \in 1..MaxSamples, trail \in TrailBytes, gap \in 0..MaxReadsToWrap }

\* The decoder newDecoder returned over meta.bytes (gap = 0), or that decoder
\* after all k samples were read and Reads went on returning EOS until gap more
\* of them bring currentCount to 2^32 (gap > 0).
DecoderOver(m, n) ==
    /\ meta = m
    /\ src = m.bytes
    /\ pstate = n.st
    /\ perr = n.err
    /\ lastChunk = NoChunk
    /\ access = FreeLock
    /\ pc = [t \in Callers |-> "idle"]
    /\ buf = [t \in Callers |-> NoBuf]
    /\ nread = [t \in Callers |-> 0]
    /\ ret = [t \in Callers |-> NoRet]
    /\ calls = [t \in Callers |-> 0]
    /\ taken = << >>
    /\ enc = NoEncoder
    /\ written = << >>
    /\ IF m.gap = 0
       THEN /\ d = n.s.d
            /\ pos = n.s.pos
            /\ delivered = 0
            /\ eos = FALSE
       ELSE /\ d = [n.s.d EXCEPT !.currentCount = CountBeforeWrap(m.w, m.gap)]
            /\ pos = n.s.pos + m.k * m.w
            /\ delivered = m.k
            /\ eos = TRUE

InitRead ==
    /\ stage = "read"
    /\ \E m \in ReadInputs : \E n \in { newDecoder(m.bytes) } : DecoderOver(m, n)

\* The slice types a caller passes: the reader's own and one that converts.
BufferVariants ==
    { "Float64" } \cup
    ({ NativeVariant(Dispatch(d.format, d.bitsPerSample)) } \ { "none" })

NextRead ==
    \/ ReadEmpty(1)
    \/ \E n \in 1..MaxBuf : \E v \in BufferVariants : ReadCall(1, n, v)
    \/ ReadLock(1)
    \/ ReadSample(1)
    \/ ReadFilled(1)
    \/ ReadUnlock(1)

SpecRead == InitRead /\ [][NextRead]_vars

(***************************************************************************)
(* Two callers sharing one decoder: Read and Config calls in any order.    *)
(***************************************************************************)
SharedInputs ==
    { ReadInput(p[1], p[2], MaxSamples, 0, 0)
      : p \in { << wave_FORMAT_PCM, 8 >>, << wave_FORMAT_PCM, 16 >> } }

InitShared ==
    /\ stage = "shared"
    /\ \E m \in SharedInputs : \E n \in { newDecoder(m.bytes) } : DecoderOver(m, n)

NextShared ==
    \E t \in Callers :
        \/ ReadEmpty(t)
        \/ \E n \in 1..MaxBuf : ReadCall(t, n, "Float64")
        \/ ReadLock(t)
        \/ ReadSample(t)
        \/ ReadFilled(t)
        \/ ReadUnlock(t)
        \/ ConfigCall(t)
        \/ ConfigRLock(t)
        \/ ConfigReturn(t)

SpecShared == InitShared /\ [][NextShared]_vars

(***************************************************************************)
(* One caller reading and seeking: data chunks of known length, of declared *)
(* length 0 (unknown size) and sources that end inside the declared chunk.  *)
(***************************************************************************)
\* RIFF/WAVE, a 16-byte fmt chunk and a data chunk declaring `declared` bytes
\* of which `present` are in the source.
StreamInput(tag, bits, declared, present, seekable) ==
    The({ [bytes |-> RiffHeader(IdRIFF, IdWAVE, rest) \o rest,
           plain |-> RiffHeader(IdRIFF, IdWAVE, rest) \o rest,
           shape |-> "stream", tag |-> tag, bits |-> bits, w |-> bits \div 8,
           declared |-> declared, present |-> present,
           k |-> declared \div (bits \div 8), gap |-> 0,
           start |-> 12 + Len(rest) - present, seekable |-> seekable]
          : rest \in { FmtChunk(tag, 2, U32(44100), bits, 16)
                       \o DataChunk(declared, present) } })

\* One format of every sample width.
StreamFormats ==
    { << wave_FORMAT_PCM, 8 >>, << wave_FORMAT_PCM, 16 >>, << wave_FORMAT_PCM, 24 >>,
      << wave_FORMAT_PCM, 32 >>, << wave_FORMAT_IEEE_FLOAT, 64 >> }

\* (declared, present) for samples of w bytes: a complete chunk, two chunks of
\* unknown size, two sources that end before the declared length.
StreamShapes(w) ==
    { << MaxSamples * w, MaxSamples * w >>,
      << 0, MaxSamples * w >>,
      << 0, (MaxSamples - 1) * w + 1 >>,
      << (MaxSamples + 1) * w, MaxSamples * w >>,
      << (MaxSamples + 1) * w, (MaxSamples - 1) * w + 1 >> }

StreamInputs ==
    UNION { { StreamInput(p[1], p[2], sh[1], sh[2], seekable)
              : sh \in StreamShapes(p[2] \div 8), seekable \in BOOLEAN }
            : p \in StreamFormats }

InitStream ==
    /\ stage = "stream"
    /\ \E m \in StreamInputs : \E n \in { newDecoder(m.bytes) } : DecoderOver(m, n)

NextStream ==
    \/ \E n \in 1..MaxBuf : \E v \in BufferVariants : ReadCall(1, n, v)
    \/ ReadLock(1)
    \/ ReadSample(1)
    \/ ReadFilled(1)
    \/ ReadUnlock(1)
    \/ \E s \in 0..MaxSeek : Seek(1, s)

SpecStream == InitStream /\ [][NextStream]_vars

(***************************************************************************)
(* Two callers sharing a decoder under fair scheduling, over sources that   *)
(* make Read leave by each of its exits: the slice filled, EndOfStream, a   *)
(* source that ends inside a sample, and the panic of the dispatch (the     *)
(* decoder newDecoder returns for a stream without a "fmt " chunk).         *)
(***************************************************************************)
\* RIFF/WAVE with a data chunk and no "fmt " chunk before it.
NoFmtInput ==
    The({ [bytes |-> RiffHeader(IdRIFF, IdWAVE, rest) \o rest,
           plain |-> RiffHeader(IdRIFF, IdWAVE, rest) \o rest,
           shape |-> "nofmt", tag |-> NoTag, bits |-> 0, w |-> 0,
           declared |-> 1, present |-> 1, k |-> 0, gap |-> 0,
           start |-> 12 + Len(rest) - 1, seekable |-> FALSE]
          : rest \in { DataChunk(1, 1) } })

FairInputs ==
    { StreamInput(wave_FORMAT_PCM, 8, 2, 2, FALSE),
      StreamInput(wave_FORMAT_PCM, 16, 4, 3, FALSE),
      NoFmtInput }

\* The slice lengths the callers pass: one sample, and the whole two-sample
\* chunk (more than the truncated source holds).
FairSlices == { 1, 2 }

InitFair ==
    /\ stage = "fair"
    /\ \E m \in FairInputs : \E n \in { newDecoder(m.bytes) } : DecoderOver(m, n)

\* The steps of caller t that need no lock to be free: the reader's loop, the
\* deferred Unlock, the return of Config with its deferred RUnlock.
Proceed(t) ==
    \/ ReadSample(t)
    \/ ReadFilled(t)
    \/ ReadUnlock(t)
    \/ ConfigReturn(t)

NextFair ==
    \E t \in Callers :
        \/ \E n \in FairSlices : ReadCall(t, n, "Float64")
        \/ ReadLock(t)
        \/ ConfigCall(t)
        \/ ConfigRLock(t)
        \/ Proceed(t)

\* The scheduler runs every goroutine that can run (weak fairness of the steps
\* that wait for nothing); sync.RWMutex hands the lock to a goroutine that
\* keeps waiting for it (strong fairness of the return of Lock and RLock).
\* The source answers every read: ReadSample is always one step.
SpecFair ==
    /\ InitFair
    /\ [][NextFair]_vars
    /\ \A t \in Callers :
          /\ WF_vars(Proceed(t))
          /\ SF_vars(ReadLock(t))
          /\ SF_vars(ConfigRLock(t))

(***************************************************************************)
(* Two callers sharing a decoder over an io.ReadSeeker: both Read and Seek. *)
(***************************************************************************)
\* A complete chunk of known length and one of unknown length (declared 0),
\* where advance moves dataChunkBegin during a Read.
RaceInputs ==
    { StreamInput(wave_FORMAT_PCM, 8, MaxSamples, MaxSamples, TRUE),
      StreamInput(wave_FORMAT_PCM, 8, 0, MaxSamples, TRUE) }

InitRace ==
    /\ stage = "race"
    /\ \E m \in RaceInputs : \E n \in { newDecoder(m.bytes) } : DecoderOver(m, n)

\* The values Seek's unsynchronised load of d.dataChunkBegin can give: the
\* field as it is, or, when the advance of a Read in its loop is about to
\* store to it (chunkSize == 0), the value of that store.
MarkerSeen ==
    { d.dataChunkBegin } \cup
    { advance(d, SampleBytes(Dispatch(d.format, d.bitsPerSample))).d.dataChunkBegin
      : u \in { u \in Callers : pc[u] = "loop" /\ nread[u] < buf[u].len } }

\* Seek(sample) called while other goroutines use the decoder: no lock is
\* taken, so it runs whatever the other callers are doing, and its load of
\* d.dataChunkBegin races with advance.
SeekRacing(t, sample) ==
    /\ pstate = "complete"
    /\ pc[t] = "idle"
    /\ calls[t] < CallCap
    /\ calls' = [calls EXCEPT ![t] = @ + 1]
    /\ \E marker \in MarkerSeen :
       \E target \in { marker + sample * (d.bitsPerSample \div 8) } :
          IF meta.seekable /\ target >= 0
          THEN /\ pos' = target
               /\ ret' = [ret EXCEPT ![t] =
                             [op |-> "Seek", err |-> "nil", sample |-> sample]]
          ELSE /\ pos' = pos
               /\ ret' = [ret EXCEPT ![t] =
                             [op |-> "Seek", sample |-> sample,
                              err |-> IF meta.seekable THEN "seek: negative position"
                                      ELSE "nil"]]
    /\ UNCHANGED << src, meta, d, pstate, perr, lastChunk, access, pc, buf, nread,
                    delivered, taken, stage, enc, written, eos >>

NextRace ==
    \E t \in Callers :
        \/ \E n \in 1..MaxBuf : ReadCall(t, n, "Float64")
        \/ ReadLock(t)
        \/ ReadSample(t)
        \/ ReadFilled(t)
        \/ ReadUnlock(t)
        \/ \E s \in 0..MaxSeek : SeekRacing(t, s)

SpecRace == InitRace /\ [][NextRace]_vars

(***************************************************************************)
(* One caller reading until the first Read that fails, over small chunks    *)
(* from their start and over chunks whose declared length is the largest    *)
(* multiple of the sample width a uint32 holds, from a few samples before   *)
(* their end.                                                              *)
(***************************************************************************)
\* The largest declared length that is a multiple of w: 2^32 - w for w = 4, 8.
LargestChunk(w) == CountBeforeWrap(w, 1)

\* x / w for a sample width w that divides 2^16.
U32Div(x, w) == x.hi * (Pow16 \div w) + x.lo \div w

\* RIFF/WAVE, a fmt chunk and a data chunk declaring LargestChunk(w) bytes.  All
\* declared bytes are in the source; of the payload, bytes holds the last j
\* samples and the trail bytes that follow the chunk (the samples before them
\* have been read and are left out).
LargeInput(tag, bits, j, trail) ==
    The({ [bytes |-> RiffHeader(IdRIFF, IdWAVE, rest) \o rest,
           plain |-> RiffHeader(IdRIFF, IdWAVE, rest) \o rest,
           shape |-> "loop", tag |-> tag, bits |-> bits, w |-> bits \div 8,
           k |-> U32Div(LargestChunk(bits \div 8), bits \div 8),
           left |-> j, trail |-> trail, gap |-> 0, large |-> TRUE,
           start |-> 12 + Len(rest) - (j * (bits \div 8) + trail)]
          : rest \in { FmtChunk(tag, 2, U32(44100), bits, 16)
                       \o IdData \o LE32(LargestChunk(bits \div 8))
                       \o Payload(j * (bits \div 8) + trail) } })

LargeInputs ==
    { LargeInput(p[1], p[2], j, trail)
      : p \in { << wave_FORMAT_PCM, 32 >>, << wave_FORMAT_IEEE_FLOAT, 64 >> },
        j \in 1..MaxReadsToWrap, trail \in TrailBytes }

\* Complete chunks of k samples, read from their start.
SmallInputs ==
    { ReadInput(p[1], p[2], k, trail, 0) @@ [left |-> k, large |-> FALSE]
      : p \in StreamFormats, k \in 1..MaxSamples, trail \in TrailBytes }

\* The decoder newDecoder returned over a small chunk; over a large chunk that
\* decoder after all samples but the last m.left were read.
InitLoop ==
    /\ stage = "loop"
    /\ \E m \in SmallInputs \cup LargeInputs : \E n \in { newDecoder(m.bytes) } :
          /\ meta = m
          /\ src = m.bytes
          /\ pstate = n.st
          /\ perr = n.err
          /\ pos = n.s.pos
          /\ d = [n.s.d EXCEPT !.currentCount =
                      IF m.large THEN U32Sub(n.s.d.chunkSize, m.left * m.w) ELSE @]
          /\ delivered = m.k - m.left
    /\ lastChunk = NoChunk
    /\ access = FreeLock
    /\ pc = [t \in Callers |-> "idle"]
    /\ buf = [t \in Callers |-> NoBuf]
    /\ nread = [t \in Callers |-> 0]
    /\ ret = [t \in Callers |-> NoRet]
    /\ calls = [t \in Callers |-> 0]
    /\ taken = << >>
    /\ eos = FALSE
    /\ enc = NoEncoder
    /\ written = << >>

\* for { read, err := decoder.Read(buf); if err != nil { break } }
LoopRead(n) ==
    /\ IF ret[1].op = "none" THEN TRUE ELSE ret[1].err = "nil"
    /\ ReadCall(1, n, "Float64")

NextLoop ==
    \/ \E n \in 1..MaxBuf : LoopRead(n)
    \/ ReadLock(1)
    \/ ReadSample(1)
    \/ ReadFilled(1)
    \/ ReadUnlock(1)

SpecLoop == InitLoop /\ [][NextLoop]_vars /\ WF_vars(NextLoop)

(***************************************************************************)
(* One caller reading one 24-bit PCM sample of chosen bytes.                *)
(***************************************************************************)
\* The values each byte of the sample takes.
Int24Bytes == { 0, 1, 127, 128, 255 }

\* RIFF/WAVE, a 24-bit PCM fmt chunk and a data chunk holding the one sample.
Int24Input(sample) ==
    The({ [bytes |-> RiffHeader(IdRIFF, IdWAVE, rest) \o rest,
           plain |-> RiffHeader(IdRIFF, IdWAVE, rest) \o rest,
           shape |-> "int24", tag |-> wave_FORMAT_PCM, bits |-> 24, w |-> 3,
           k |-> 1, trail |-> 0, gap |-> 0, start |-> 12 + Len(rest) - 3]
          : rest \in { FmtChunk(wave_FORMAT_PCM, 2, U32(44100), 24, 16)
                       \o IdData \o LE32(U32(3)) \o sample } })

InitInt24 ==
    /\ stage = "int24"
    /\ \E b0 \in Int24Bytes : \E b1 \in Int24Bytes : \E b2 \in Int24Bytes :
       \E m \in { Int24Input(<< b0, b1, b2 >>) } :
       \E n \in { newDecoder(m.bytes) } : DecoderOver(m, n)

NextInt24 ==
    \/ \E v \in BufferVariants : ReadCall(1, 1, v)
    \/ ReadLock(1)
    \/ ReadSample(1)
    \/ ReadFilled(1)
    \/ ReadUnlock(1)

SpecInt24 == InitInt24 /\ [][NextInt24]_vars

(***************************************************************************)
(* The encoder (its source is not part of the files modelled above; it is  *)
(* modelled from the specification: a RIFF/WAVE header with placeholder    *)
(* sizes, a 16-bit PCM fmt chunk, samples as little-endian int16, sizes     *)
(* patched by Close) and the round trip through the decoder.               *)
(***************************************************************************)
\* The fmt chunk the encoder writes for a Config: 16-bit PCM.
EncoderFmt(conf) ==
    IdFmt \o LE32(U32(SizeC16))
    \o LE16(wave_FORMAT_PCM) \o LE16(conf.Channels) \o LE32(U32(conf.SampleRate))
    \o LE32(U32(conf.SampleRate * conf.Channels * 2)) \o LE16(conf.Channels * 2)
    \o LE16(16)

\* NewEncoder(w, conf): the header with placeholder sizes, the data chunk opened.
NewEncoder(conf) ==
    [open |-> TRUE, conf |-> conf, bytesWritten |-> 0,
     w |-> IdRIFF \o LE32(U32Zero) \o IdWAVE \o EncoderFmt(conf)
           \o IdData \o LE32(U32Zero)]

\* The two bytes of an int16, little-endian.
PutInt16(s) == LE16((s + Pow16) % Pow16)

RECURSIVE PutSamples(_)
PutSamples(b) == IF b = << >> THEN << >> ELSE PutInt16(Head(b)) \o PutSamples(Tail(b))

\* Encoder.Write(b) for an Int16 slice b: every sample appended, bytes counted.
EncoderWrite(e, b) ==
    [e EXCEPT !.w = @ \o PutSamples(b), !.bytesWritten = @ + 2 * Len(b)]

\* s with the bytes from offset at (from 0) on replaced by p.
Patch(s, at, p) ==
    [i \in 1..Len(s) |-> IF i > at /\ i <= at + Len(p) THEN p[i - at] ELSE s[i]]

\* Encoder.Close(): the RIFF size and the data size are written into the header.
EncoderClose(e) ==
    [e EXCEPT !.open = FALSE,
              !.w = Patch(Patch(@, 4, LE32(U32(36 + e.bytesWritten))),
                          40, LE32(U32(e.bytesWritten)))]

\* Configs and samples handed to the encoder.
CodecConfigs ==
    { [Channels |-> c, SampleRate |-> r] : c \in { 1, 2, 65537 }, r \in { 8000, 11025 } }

SampleInputs == { 0 - 32768, 0 - 2, 32767 }

RECURSIVE SlicesOf(_)
SlicesOf(n) ==
    IF n = 0 THEN { << >> }
    ELSE { Append(b, s) : b \in SlicesOf(n - 1), s \in SampleInputs }

InitCodec ==
    /\ stage = "encoding"
    /\ \E conf \in CodecConfigs :
          /\ meta = [shape |-> "codec", conf |-> conf, gap |-> 0]
          /\ enc = NewEncoder(conf)
    /\ written = << >>
    /\ src = << >>
    /\ pos = 0
    /\ d = NewDecoderStruct
    /\ pstate = "parsing"
    /\ perr = "nil"
    /\ lastChunk = NoChunk
    /\ CallersIdle

\* One Write call of the sequence of writes.
EncWrite(b) ==
    /\ stage = "encoding"
    /\ Len(written) + Len(b) <= MaxSamples
    /\ enc' = EncoderWrite(enc, b)
    /\ written' = written \o b
    /\ UNCHANGED << src, meta, pos, d, pstate, perr, lastChunk, stage, callerVars >>

EncClose ==
    /\ stage = "encoding"
    /\ enc' = EncoderClose(enc)
    /\ stage' = "encoded"
    /\ UNCHANGED << src, meta, pos, d, pstate, perr, lastChunk, written, callerVars >>

\* The sink is read back from its start: newDecoder over the bytes written.
DecodeOpen ==
    /\ stage = "encoded"
    /\ stage' = "decoding"
    /\ src' = enc.w
    /\ \E n \in { newDecoder(enc.w) } :
          /\ d' = n.s.d
          /\ pos' = n.s.pos
          /\ pstate' = n.st
          /\ perr' = n.err
    /\ UNCHANGED << meta, lastChunk, enc, written, callerVars >>

NextCodec ==
    \/ \E n \in 1..MaxSamples : \E b \in SlicesOf(n) : EncWrite(b)
    \/ EncClose
    \/ DecodeOpen
    \/ \E n \in 1..MaxBuf : ReadCall(1, n, "Int16")
    \/ ReadLock(1)
    \/ ReadSample(1)
    \/ ReadFilled(1)
    \/ ReadUnlock(1)

SpecCodec == InitCodec /\ [][NextCodec]_vars

(***************************************************************************)
(* Claims about construction (checked under SpecParse).                    *)
(***************************************************************************)
Done == pstate # "parsing"

\* What construction gave its caller, apart from the reader's offset.
Outcome(st, err, dec) ==
    IF st = "complete"
    THEN [st |-> st, format |-> dec.format, bitsPerSample |-> dec.bitsPerSample,
          chunkSize |-> dec.chunkSize, config |-> dec.config]
    ELSE [st |-> st, err |-> err]

\* C5: a decoder is returned only if a fmt chunk with a supported combination
\* was parsed before the data chunk, so config is set on every decoder that is
\* returned and Config() returns it without faulting.
C5_ConfigSetOnEveryDecoder ==
    /\ pstate = "complete" => d.config.set
    /\ \A t \in Callers : ret[t].op = "Config" => ret[t].err = "nil"

\* The supported (formatTag, bitsPerSample) pairs as the specification lists them.
SupportedPairs ==
    { << 1, 8 >>, << 1, 16 >>, << 1, 24 >>, << 1, 32 >>,
      << 3, 32 >>, << 3, 64 >>, << 6, 8 >>, << 7, 8 >> }

C7_NonRIFFIsInvalidData ==
    (Done /\ Len(src) >= 4 /\ SubSeq(src, 1, 4) # IdRIFF) =>
        (pstate = "failed" /\ perr = "ErrInvalidData")

\* C8: after a "RIFF" chunk header the parser consumes the next 4 bytes; if
\* they are not "WAVE" construction fails with ErrInvalidData, and if they are
\* the loop goes on with the next chunk header.
C8_RIFFRequiresWAVE ==
    (lastChunk.kind = "RIFF" /\ Len(src) >= lastChunk.at + 12) =>
        /\ pos = lastChunk.at + 12
        /\ IF SubSeq(src, lastChunk.at + 9, lastChunk.at + 12) = IdWAVE
           THEN pstate = "parsing" /\ perr = "nil"
           ELSE pstate = "failed" /\ perr = "ErrInvalidData"

\* C8 witness: a RIFF chunk whose literal is present and is not "WAVE" was read.
C8_Witness ==
    /\ lastChunk.kind = "RIFF"
    /\ Len(src) >= lastChunk.at + 12
    /\ SubSeq(src, lastChunk.at + 9, lastChunk.at + 12) # IdWAVE
    /\ pstate = "failed"

\* C9: a chunk with an unknown identifier and declared length L is skipped: the
\* next header is read L bytes after the chunk's 8-byte header, and construction
\* ends as it does on the same container without the unknown chunk.
C9_UnknownChunkSkipped ==
    /\ (lastChunk.kind = "other" /\ meta.shape = "structure") =>
           U32(pos - lastChunk.at - 8) = lastChunk.length
    /\ (Done /\ meta.shape = "structure") =>
           Outcome(pstate, perr, d)
             = The({ Outcome(n.st, n.err, n.s.d) : n \in { newDecoder(meta.plain) } })

\* C10: when the source fails or ends before the data chunk header has been
\* read, construction returns no decoder and returns the source's I/O error.
C10_ReadFailureIsIOError ==
    (Done /\ lastChunk.rd # "nil") =>
        (pstate = "failed" /\ perr = lastChunk.rd)

(***************************************************************************)
(* Claims about Read by one caller (checked under SpecRead).               *)
(***************************************************************************)
\* A Read call with a non-empty slice that has returned to caller t.
Returned(t) == pc[t] = "idle" /\ ret[t].op = "Read" /\ ret[t].len >= 1

\* The scenario starts at a decoder that has returned no EOS yet.
NoEOSBefore == meta.gap = 0

\* C1: over a data chunk of exactly k samples, for every sequence of Reads with
\* non-empty slices: the counts returned sum to k (never more, and exactly k
\* once EOS was returned); a Read that lies wholly before the boundary returns
\* the slice length and no error; a Read that cannot be filled returns the
\* samples that remained together with EOS.
C1_EndOfStreamBoundary ==
    /\ delivered <= meta.k
    /\ \A t \in Callers : Returned(t) =>
          IF ret[t].before + ret[t].len <= meta.k
          THEN ret[t].n = ret[t].len /\ ret[t].err = "nil"
          ELSE NoEOSBefore =>
                  /\ ret[t].n = meta.k - ret[t].before
                  /\ ret[t].err = "EOS"
                  /\ delivered = meta.k

\* The same of the decoders that have not been read up to the wrap of currentCount.
C1_BeforeWrap == NoEOSBefore => C1_EndOfStreamBoundary

(***************************************************************************)
(* Claims about callers sharing a decoder (checked under SpecShared).      *)
(***************************************************************************)
\* Callers between the return of Lock() and the deferred Unlock() of Read.
InRead == { t \in Callers : pc[t] \in { "loop", "unlock" } }

\* Callers between the return of RLock() and the deferred RUnlock() of Config.
InConfig == { t \in Callers : pc[t] = "rheld" }

\* C3: two Reads with non-empty slices never interleave: at most one Read is
\* between Lock and Unlock; the samples a Read stores are a contiguous run of
\* the source; no sample of the source goes to two calls and none is dropped.
C3_ReadsDoNotInterleave ==
    /\ Cardinality(InRead) <= 1
    /\ \A t \in Callers : \A i \in 1..(nread[t] - 1) :
          buf[t].cells[i + 1].off = buf[t].cells[i].off + meta.w
    /\ \A i \in 1..Len(taken) : taken[i].off = meta.start + (i - 1) * meta.w
    /\ \A i \in 1..Len(taken) : \A j \in i..Len(taken) : \A l \in j..Len(taken) :
          (taken[i].by = taken[l].by /\ taken[i].call = taken[l].call)
              => (taken[j].by = taken[i].by /\ taken[j].call = taken[i].call)

\* C3 witness: a Read stored two samples while the other caller waits in Lock().
C3_Witness ==
    \E t \in Callers : \E u \in Callers :
        /\ pc[t] = "loop"
        /\ nread[t] >= 2
        /\ pc[u] = "lock"

\* C4: Config and Read exclude each other (no Config holds the shared lock while
\* a Read holds the exclusive lock), while Config calls may hold it together.
C4_ConfigExcludesRead ==
    /\ ~(access.w # 0 /\ access.r # {})
    /\ InRead # {} => InConfig = {}
    /\ access.r = InConfig
    /\ \A t \in Callers : t \in InRead <=> access.w = t

\* C4 witness: two Config calls hold the shared lock at the same time.
C4_Witness == Cardinality(InConfig) >= 2 /\ access.w = 0

(***************************************************************************)
(* The round trip (checked under SpecCodec).                               *)
(***************************************************************************)
\* The decoder has reported the end of the decoded stream to its caller.
DecodedAll ==
    /\ stage = "decoding"
    /\ pc[1] = "idle"
    /\ ret[1].op = "Read"
    /\ ret[1].err # "nil"

C2_SamplesRoundTrip ==
    DecodedAll =>
        /\ delivered = Len(written)
        /\ Len(taken) = Len(written)
        /\ \A i \in 1..Len(taken) :
              taken[i].cell.how = "native" /\ taken[i].cell.v = written[i]

\* The round trip of a Config whose channel count fits the 16-bit field.
C2_ConfigRoundTripU16 ==
    (stage = "decoding" /\ meta.conf.Channels < Pow16) =>
        /\ pstate = "complete"
        /\ d.config = [set |-> TRUE, Channels |-> meta.conf.Channels,
                       SampleRate |-> U32(meta.conf.SampleRate)]

(***************************************************************************)
(* Seek (checked under SpecStream).                                        *)
(***************************************************************************)
\* C11: on a seekable source, after construction and after any Reads, whether
\* the data chunk length is known or 0, Seek(s) leaves the source at the offset
\* of the first payload byte of the data chunk plus s * (bitsPerSample / 8).
C11_SeekIsRelativeToDataStart ==
    \A t \in Callers :
        (meta.seekable /\ pc[t] = "idle" /\ ret[t].op = "Seek") =>
            /\ ret[t].err = "nil"
            /\ pos = meta.start + ret[t].sample * (meta.bits \div 8)

\* The same of the decoders over a data chunk of known length.
C11_KnownLength ==
    meta.declared > 0 => C11_SeekIsRelativeToDataStart

(***************************************************************************)
(* The dispatch of Read (checked under SpecParse).                         *)
(***************************************************************************)
\* C12: on every decoder that construction returns, the switch of Read on
\* (format, bitsPerSample) selects a reader: no Read ends in the "invalid
\* format" or "invalid bits per sample" panic.
C12_DispatchNeverPanics ==
    \A t \in Callers : ret[t].op = "Read" => ~IsPanic(ret[t].err)

\* The same of the decoders whose construction parsed a fmt chunk.
C12_AfterFmt ==
    d.config.set => C12_DispatchNeverPanics

(***************************************************************************)
(* Sources that end inside the declared chunk (checked under SpecStream).  *)
(***************************************************************************)
\* The errors of a source that has ended.
IOErrors == { "EOF", "ErrUnexpectedEOF" }

\* Caller t is about to read a sample that lies inside the declared chunk of
\* known length while the source has fewer bytes left than the sample needs.
SampleCutShort(t) ==
    /\ pc[t] = "loop"
    /\ nread[t] < buf[t].len
    /\ meta.declared > 0
    /\ U32Val(d.currentCount) + meta.w <= meta.declared
    /\ Len(src) < pos + meta.w

\* C13: when the chunk length is known and the source delivers fewer bytes than
\* a sample inside the declared chunk needs, Read returns the samples filled
\* before it with the source's I/O error (not EOS, not nil) and does not write
\* the slot of the incomplete sample.
C13_TruncatedSourceIsIOFailure ==
    [][ \A t \in Callers :
          (SampleCutShort(t) /\ << pc[t], nread[t], ret[t] >>' # << pc[t], nread[t], ret[t] >>)
             => /\ pc'[t] = "unlock"
                /\ ret'[t].op = "Read"
                /\ ret'[t].n = nread[t]
                /\ ret'[t].err \in IOErrors
                /\ buf'[t] = buf[t] ]_vars

\* C13 witness: a Read over a source that ends inside the second sample of the
\* declared chunk returned (1, io.ErrUnexpectedEOF), the second slot unwritten.
C13_Witness ==
    /\ meta.declared > meta.present
    /\ pc[1] = "idle"
    /\ ret[1].op = "Read"
    /\ ret[1].n = 1
    /\ ret[1].err = "ErrUnexpectedEOF"
    /\ buf[1].len >= 2
    /\ buf[1].cells[2] = Unwritten
    /\ buf[1].cells[1] # Unwritten

(***************************************************************************)
(* Read of an empty slice (checked under SpecShared).                      *)
(***************************************************************************)
\* C14: Read with a zero-length slice returns (0, nil) in every state of the
\* decoder (after EOS, while another Read holds the lock); it takes no lock,
\* consumes no byte of the source and changes no field of the decoder.
C14_EmptyReadIsNoOp ==
    /\ [](\A t \in Callers :
            (pstate = "complete" /\ pc[t] = "idle" /\ calls[t] < CallCap)
                => ENABLED ReadEmpty(t))
    /\ [][ \A t \in Callers :
             (calls'[t] # calls[t] /\ pc'[t] = "idle")
                => /\ ret'[t].op = "Read"
                   /\ ret'[t].n = 0
                   /\ ret'[t].err = "nil"
                   /\ UNCHANGED << d, pos, access, delivered, eos >> ]_vars

\* C14 witness: an empty Read returned after EOS had been reported, and a Read
\* of the other caller holds the lock.
C14_Witness ==
    \E t \in Callers :
        /\ pc[t] = "idle"
        /\ ret[t].op = "Read"
        /\ ret[t].len = 0
        /\ ret[t].afterEOS
        /\ access.w \notin { 0, t }

(***************************************************************************)
(* The frame of Seek (checked under SpecStream).                           *)
(***************************************************************************)
\* The step is a Seek call of caller t.
SeekStep(t) == calls'[t] # calls[t] /\ pc'[t] = "idle" /\ ret'[t].op = "Seek"

\* Seek changes no field of the decoder; on a source that cannot seek it
\* changes nothing and returns nil.
SeekFrame ==
    \A t \in Callers :
        SeekStep(t) =>
            /\ d' = d
            /\ UNCHANGED << access, delivered, taken, eos, buf, nread >>
            /\ ~meta.seekable => (pos' = pos /\ ret'[t].err = "nil")

Word24(off) == src[off + 1] + 256 * src[off + 2] + 65536 * src[off + 3]

\* C16: the value decoded from three little-endian bytes is the two's
\* complement reading of their 24-bit word: it lies in -8388608..8388607, is
\* negative exactly when bit 7 of the last byte is set, and its low 24 bits are
\* the word; 00 00 80 gives -8388608 and FF FF 7F gives 8388607.
C16_Int24TwosComplement ==
    \A i \in 1..Len(taken) :
        \E v \in { taken[i].cell.v } : \E off \in { taken[i].off } :
            /\ v \in (0 - 8388608)..8388607
            /\ v < 0 <=> src[off + 3] >= 128
            /\ (v + 16777216) % 16777216 = Word24(off)
            /\ SubSeq(src, off + 1, off + 3) = << 0, 0, 128 >> => v = 0 - 8388608
            /\ SubSeq(src, off + 1, off + 3) = << 255, 255, 127 >> => v = 8388607

\* C16 witness: the bytes 00 00 80 were decoded into an Int32 slice.
C16_Witness ==
    /\ stage = "int24"
    /\ pc[1] = "idle"
    /\ ret[1].op = "Read"
    /\ ret[1].n = 1
    /\ SubSeq(src, meta.start + 1, meta.start + 3) = << 0, 0, 128 >>
    /\ buf[1].cells[1].how = "native"
    /\ buf[1].cells[1].v = 0 - 8388608

(***************************************************************************)
(* Reading until EOS (checked under SpecLoop).                             *)
(***************************************************************************)
\* The caller's loop has ended: a Read returned an error.
Stopped == pc[1] = "idle" /\ ret[1].op = "Read" /\ ret[1].err # "nil"

\* C17: a caller that calls Read with a non-empty slice until a Read fails
\* stops, and stops with EOS when the source holds all declared bytes (which
\* every source of SpecLoop does).
C17_ReadUntilEOSTerminates ==
    /\ <>Stopped
    /\ [](Stopped => ret[1].err = "EOS")

\* The same of the chunks whose length is not the largest a uint32 holds.
C17_SmallChunks ==
    /\ <>Stopped
    /\ [](Stopped /\ ~meta.large => ret[1].err = "EOS")

(***************************************************************************)
(* The bounds of the data chunk (checked under SpecLoop).                  *)
(***************************************************************************)
\* C20: whatever the declared length c and the sample width w, the Reads pull
\* no more than c payload bytes from the source and deliver no more than
\* floor(c / w) samples: currentCount + w never wraps past the boundary.
C20_NeverBeyondDeclaredLength ==
    /\ pos - meta.start <= meta.left * meta.w
    /\ delivered <= meta.k

\* The same of the chunks whose length is not the largest a uint32 holds.
C20_SmallChunks == ~meta.large => C20_NeverBeyondDeclaredLength

(***************************************************************************)
(* Data chunks of declared length 0 (checked under SpecStream).            *)
(***************************************************************************)
\* C18: a data chunk of declared length 0 is of unknown size: no Read on it
\* returns EOS; a Read returns its slice full or fails with the I/O error of a
\* source that has ended; every sample read is decoded from the bytes at the
\* reader's offset and moves dataChunkBegin, not currentCount, by the width.
C18_ZeroLengthIsUnknownSize ==
    /\ [](meta.declared = 0 =>
            /\ ~eos
            /\ \A t \in Callers : (pc[t] \in { "idle", "unlock" } /\ ret[t].op = "Read") =>
                  /\ ret[t].err # "EOS"
                  /\ ret[t].err = "nil" => ret[t].n = ret[t].len
                  /\ ret[t].err # "nil" => (ret[t].err \in IOErrors /\ pos >= Len(src)))
    /\ [][ (meta.declared = 0 /\ Len(taken') > Len(taken)) =>
              /\ d'.dataChunkBegin = d.dataChunkBegin + meta.w
              /\ d'.currentCount = d.currentCount
              /\ taken'[Len(taken')].off = pos
              /\ pos' = pos + meta.w ]_vars

\* C18 witness: over a chunk of declared length 0 a Read delivered the samples
\* the source held and failed with io.EOF.
C18_Witness ==
    /\ meta.declared = 0
    /\ pc[1] = "idle"
    /\ ret[1].op = "Read"
    /\ ret[1].n = MaxSamples
    /\ ret[1].err = "EOF"
    /\ d.dataChunkBegin = meta.start + (MaxSamples + 1) * meta.w

(***************************************************************************)
(* EOS once reported (checked under SpecRead).                             *)
(***************************************************************************)
\* Every Read with a non-empty slice that returned after an EOS returned
\* (0, EOS).
LaterReadsReturnEOS ==
    \A t \in Callers :
        (Returned(t) /\ ret[t].afterEOS) => (ret[t].n = 0 /\ ret[t].err = "EOS")

\* C19: once a Read on a decoder with a known chunk length has returned EOS,
\* every later Read with a non-empty slice returns (0, EOS) and takes no byte
\* from the source.
C19_EndOfStreamIsSticky ==
    /\ []LaterReadsReturnEOS
    /\ [][eos => pos' = pos]_vars

\* The same of the decoders that have not been read up to the wrap of
\* currentCount.
C19_BeforeWrap ==
    /\ [](NoEOSBefore => LaterReadsReturnEOS)
    /\ [][(NoEOSBefore /\ eos) => pos' = pos]_vars

(***************************************************************************)
(* The lock of Read and Config under fair scheduling (checked under         *)
(* SpecFair).                                                              *)
(***************************************************************************)
\* Callers inside Lock() or RLock(), waiting for it to return.
Pending == { t \in Callers : pc[t] \in { "lock", "rlock" } }

\* C21: a Read holds the exclusive lock from the return of Lock() through the
\* whole per-sample loop and releases it on every exit (slice filled, EOS, I/O
\* failure, dispatch panic): the lock is free whenever no Read is past Lock()
\* and no Config is past RLock(); and under fair scheduling every call waiting
\* in Lock() or RLock() acquires the lock and returns.
C21_LockReleasedOnEveryExit ==
    /\ [](\A t \in Callers : t \in InRead => access.w = t)
    /\ []((InRead = {} /\ InConfig = {}) => access = FreeLock)
    /\ \A t \in Callers : (t \in Pending) ~> (pc[t] = "idle" /\ access.w # t /\ t \notin access.r)

\* C21 witness: a Read of one caller has left through the dispatch panic and
\* the other caller, which waited in Lock(), now holds the lock.
C21_Witness ==
    \E t \in Callers : \E u \in Callers :
        /\ pc[t] = "idle"
        /\ ret[t].op = "Read"
        /\ IsPanic(ret[t].err)
        /\ pc[u] \in { "loop", "unlock" }
        /\ access.w = u

(***************************************************************************)
(* Seek beside Read on a shared decoder (checked under SpecRace).           *)
(***************************************************************************)
\* C22: Seek is serialised with Read: no Seek of another caller takes place
\* while a Read is between the return of Lock() and its Unlock(), and the
\* samples one Read call stores come from consecutive positions of the source.
C22_SeekSerializedWithRead ==
    /\ [][\A t \in Callers : SeekStep(t) => InRead = {}]_vars
    /\ [](\A t \in Callers : \A i \in 1..(nread[t] - 1) :
             buf[t].cells[i + 1].off = buf[t].cells[i].off + meta.w)

(***************************************************************************)
(* The end of construction (checked under SpecBuild).                       *)
(***************************************************************************)
\* An iteration of the chunk loop has read the 8 bytes of a chunk header, or
\* construction has failed.
HeaderConsumedOrFailed == pos' >= pos + 8 \/ pstate' = "failed"

\* Construction ended at the first "data" header: the reader stands right after
\* the 8 bytes of that header.
StopsAfterDataHeader ==
    pstate = "complete" => (lastChunk.kind = "data" /\ pos = lastChunk.at + 8)

\* dataChunkBegin is the number of bytes of the stream read so far.
MarkerIsByteCount ==
    pstate = "complete" =>
        (d.dataChunkBegin >= meta.skipped /\ d.dataChunkBegin - meta.skipped = pos)

\* C23: construction terminates on every finite stream: every iteration of the
\* chunk loop consumes at least the 8-byte chunk header or fails, so the parser
\* ends Complete or Failed; when Complete it has consumed exactly the bytes up
\* to and including the first "data" header, none of the payload, and
\* dataChunkBegin equals that byte count.
C23_ConstructionTerminates ==
    /\ <>Done
    /\ [][HeaderConsumedOrFailed]_vars
    /\ [](StopsAfterDataHeader /\ MarkerIsByteCount)

\* The same with the byte count taken modulo 2^32 as an int32: termination, the
\* 8 bytes per iteration and the reader's position after the data header hold
\* of every stream, the equality of dataChunkBegin of the streams whose data
\* header ends before the 2^31-th byte.
C23_BelowInt32 ==
    /\ <>Done
    /\ [][HeaderConsumedOrFailed]_vars
    /\ [](StopsAfterDataHeader)
    /\ []((pstate = "complete" /\ meta.skipped <= MaxInt32 - pos) => MarkerIsByteCount)

====
